---- MODULE Spec2Model ----
\* Clip pipeline of clip-farm: cache lookup, download fallback chain,
\* cache save / repair, two-phase clip extraction, probe and deferred cleanup.
\* Every action is the code that runs between two await points of a request.
EXTENDS Integers, Sequences, FiniteSets, TLC

\* ---------------------------------------------------------------- bounds
MaxReq == 2                     \* clip requests issued in one behaviour
MaxParts == 4                   \* components of a time string given to a parser
MaxUrlLen == 4                  \* pieces of a generated URL

\* ------------------------------------------------------- program constants
max_video_duration == 3600      \* settings.max_video_duration (seconds)
MinCopySize == 1000             \* stream copy must be larger than this

Procs == {1, 2}                 \* request handlers that may run concurrently
SeqProcs == {1}                 \* one handler: requests one after the other
Ids == {"a", "b"}               \* 11-character video identifiers
Exts == {"mp4", "webm", "mkv", "part"}
AcceptedExts == {"mp4", "webm", "mkv"}
NoFile == -1                    \* size of a path that does not exist
SrcSizes == {100, 150, 200}     \* worst-quality and best-quality sources
ClipSizes == {0, 1000, 1001}    \* sizes a clip output may have
\* a list with one more alternate context
fallback_browsers_Four == <<"firefox", "edge", "safari", "opera">>

fallback_browsers == <<"firefox", "edge", "safari">>
Steps == <<"primary">> \o fallback_browsers \o <<"final">>

NoPath == [id |-> "", ext |-> ""]
NoRecord == [video_id |-> "", file_path |-> NoPath, file_size |-> 0,
             is_active |-> FALSE]

\* ------------------------------------------------------------ time strings
\* A time string is the sequence of its ':'-separated components; a component
\* is an integer literal, a decimal literal or not a number; v is its value in
\* milliseconds and w the number of characters it is written with.
IntPart(n) == [kind |-> "int", v |-> n * 1000, w |-> 2]
FracPart(ms) == [kind |-> "frac", v |-> ms, w |-> 6]
BadPart == [kind |-> "bad", v |-> 0, w |-> 2]
T_00_00_00 == <<IntPart(0), IntPart(0), IntPart(0)>>
T_00_00_10 == <<IntPart(0), IntPart(0), IntPart(10)>>
T_00_00_30 == <<IntPart(0), IntPart(0), IntPart(30)>>
T_00_00_40 == <<IntPart(0), IntPart(0), IntPart(40)>>
T_00_01_00 == <<IntPart(0), IntPart(1), IntPart(0)>>
T_01_00 == <<IntPart(1), IntPart(0)>>
T_01_00_00 == <<IntPart(1), IntPart(0), IntPart(0)>>
T_01_00_01 == <<IntPart(1), IntPart(0), IntPart(1)>>

TimeOk(n) == [ok |-> TRUE, v |-> n]
TimeErr == [ok |-> FALSE, v |-> 0]

IntOf(p) == IF p.kind = "int" THEN TimeOk(p.v) ELSE TimeErr
FloatOf(p) == IF p.kind \in {"int", "frac"} THEN TimeOk(p.v) ELSE TimeErr

\* a parser that also takes a lone seconds component
_time_to_seconds_WithSS(t) ==
    IF Len(t) = 1
    THEN FloatOf(t[1])
    ELSE IF Len(t) = 2
    THEN IF IntOf(t[1]).ok /\ FloatOf(t[2]).ok
         THEN TimeOk(t[1].v * 60 + t[2].v) ELSE TimeErr
    ELSE IF Len(t) = 3
    THEN IF IntOf(t[1]).ok /\ IntOf(t[2]).ok /\ FloatOf(t[3]).ok
         THEN TimeOk(t[1].v * 3600 + t[2].v * 60 + t[3].v) ELSE TimeErr
    ELSE TimeErr

_time_to_seconds(t) ==
    IF Len(t) = 2
    THEN IF IntOf(t[1]).ok /\ FloatOf(t[2]).ok
         THEN TimeOk(t[1].v * 60 + t[2].v) ELSE TimeErr
    ELSE IF Len(t) = 3
    THEN IF IntOf(t[1]).ok /\ IntOf(t[2]).ok /\ FloatOf(t[3]).ok
         THEN TimeOk(t[1].v * 3600 + t[2].v * 60 + t[3].v) ELSE TimeErr
    ELSE TimeErr

RECURSIVE Digits(_)
Digits(n) == IF n < 10 THEN 1 ELSE 1 + Digits(n \div 10)

\* the characters of an integer written with the format 02d
Width02d(n) ==
    LET chars == IF n < 0 THEN 1 + Digits(0 - n) ELSE Digits(n)
    IN  IF chars < 2 THEN 2 ELSE chars

\* a formatter that drops the fraction of the seconds
_seconds_to_time_format_NoMillis(ms) ==
    <<[kind |-> "int", v |-> (ms \div 3600000) * 1000,
       w |-> Width02d(ms \div 3600000)],
      [kind |-> "int", v |-> ((ms % 3600000) \div 60000) * 1000, w |-> 2],
      [kind |-> "frac", v |-> ((ms % 60000) \div 1000) * 1000, w |-> 6]>>

\* _seconds_to_time_format on an offset of ms milliseconds: hours and minutes
\* by floor division, the seconds with three decimals in six characters
_seconds_to_time_format(ms) ==
    <<[kind |-> "int", v |-> (ms \div 3600000) * 1000,
       w |-> Width02d(ms \div 3600000)],
      [kind |-> "int", v |-> ((ms % 3600000) \div 60000) * 1000, w |-> 2],
      [kind |-> "frac", v |-> ms % 60000, w |-> 6]>>

\* create_clip's own range check: "ok" or the reason of the rejection
ClipRangeCheck(start_time, end_time) ==
    LET s == _time_to_seconds(start_time)
        e == _time_to_seconds(end_time)
    IN  IF ~s.ok \/ ~e.ok THEN "format"
        ELSE IF e.v - s.v <= 0 THEN "order"
        ELSE IF e.v - s.v > max_video_duration * 1000 THEN "too_long"
        ELSE "ok"

\* video_duration=None
NoDuration == -1

\* the test "if video_duration and ..." of validate_time_range
DurationGiven(video_duration) ==
    video_duration # NoDuration /\ video_duration # 0

\* validate_time_range: "ok" or the reason of the rejection; video_duration
\* is in milliseconds
validate_time_range(start_time, end_time, video_duration) ==
    LET s == _time_to_seconds(start_time)
        e == _time_to_seconds(end_time)
    IN  IF ~s.ok \/ ~e.ok THEN "format"
        ELSE IF s.v < 0 \/ e.v < 0 THEN "negative"
        ELSE IF s.v >= e.v THEN "order"
        ELSE IF DurationGiven(video_duration) /\ e.v > video_duration
        THEN "exceeds_source"
        ELSE IF e.v - s.v > max_video_duration * 1000 THEN "too_long"
        ELSE "ok"

\* ------------------------------------------------------------------- urls
\* A URL is the sequence of its pieces: the characters "/" and ".", the
\* literals "v=", "embed/" and "youtu.be/", and maximal runs of n characters
\* of [0-9A-Za-z_-] whose first 11 characters are tok.  A run is never
\* directly followed by a piece that starts with such a character; "."
\* stands for every character that is neither "/" nor of that class.
TokenLen == 11
Slash == [txt |-> "/", n |-> 0, tok |-> ""]
Dot == [txt |-> ".", n |-> 0, tok |-> ""]
VEquals == [txt |-> "v=", n |-> 0, tok |-> ""]
EmbedSlash == [txt |-> "embed/", n |-> 0, tok |-> ""]
YoutuBeSlash == [txt |-> "youtu.be/", n |-> 0, tok |-> ""]
Run(n, tok) == [txt |-> "run", n |-> n, tok |-> tok]
Word == Run(5, "")

WatchUrl(tok) ==
    <<Slash, Slash, Word, Dot, Word, Dot, Word, Slash, Word, Dot, VEquals,
      Run(TokenLen, tok)>>
EmbedUrl(tok) ==
    <<Slash, Slash, Word, Dot, Word, Dot, Word, Slash, EmbedSlash,
      Run(TokenLen, tok)>>
ShortUrl(tok) == <<Slash, Slash, YoutuBeSlash, Run(TokenLen, tok)>>
\* a watch URL whose v parameter is 11 characters with dots among them
NoTokenUrl ==
    <<Slash, Slash, Word, Dot, Word, Dot, Word, Slash, Word, Dot, VEquals,
      Run(3, ""), Dot, Run(3, ""), Dot, Run(3, "")>>

Urls == {WatchUrl("a"), NoTokenUrl}
ConcUrls == {WatchUrl("a"), WatchUrl("b")}

IsToken(p) == p.txt = "run" /\ p.n >= TokenLen

\* the pieces a pattern's prefix can end in
patterns ==
    <<{Slash, EmbedSlash, YoutuBeSlash, VEquals}, {EmbedSlash}, {VEquals},
      {YoutuBeSlash}>>

\* the positions where re.search can match pattern k: its prefix directly
\* followed by 11 characters of the class
Matches(k, url) ==
    {i \in 1..(Len(url) - 1) : url[i] \in patterns[k] /\ IsToken(url[i + 1])}

Min(S) == CHOOSE x \in S : \A y \in S : x <= y

RECURSIVE SearchFrom(_, _)
SearchFrom(k, url) ==
    IF k > Len(patterns) THEN ""
    ELSE IF Matches(k, url) # {} THEN url[Min(Matches(k, url)) + 1].tok
    ELSE SearchFrom(k + 1, url)

\* extract_video_id: the capture of the first pattern that matches, at its
\* leftmost match; "" stands for InvalidURLException
extract_video_id(url) == SearchFrom(1, url)

\* ClipRequest.validate_time_format: one or two digits for the hours, if any,
\* and for the minutes, two digits for the seconds, an optional fraction
validate_time_format(t) ==
    /\ Len(t) \in {2, 3}
    /\ \A i \in 1..(Len(t) - 1) :
         t[i].kind = "int" /\ t[i].v >= 0 /\ t[i].w \in {1, 2}
    /\ t[Len(t)].v >= 0
    /\ \/ t[Len(t)].kind = "int" /\ t[Len(t)].w = 2
       \/ t[Len(t)].kind = "frac" /\ t[Len(t)].w >= 4

T_bad_00 == <<BadPart, IntPart(0)>>

Ranges == {<<T_00_00_10, T_00_00_40>>, <<T_00_00_10, T_01_00>>,
           <<T_00_01_00, T_00_00_30>>, <<T_00_00_00, T_01_00_01>>,
           <<T_bad_00, T_00_00_40>>}
ConcRanges == {<<T_00_00_10, T_00_00_40>>}

VARIABLES req, db, srcFiles, clipFiles, bgTasks, nextClip, issued, calc
vars == <<req, db, srcFiles, clipFiles, bgTasks, nextClip, issued, calc>>
pipeline == <<req, db, srcFiles, clipFiles, bgTasks, nextClip, issued>>

\* no helper has been called on its own
NoCalc == [op |-> "none"]

IdleReq ==
    [pc |-> "idle", url |-> <<>>,
     start_time |-> <<>>, end_time |-> <<>>, video_id |-> "",
     video_record |-> NoRecord, video_path |-> NoPath, file_size |-> 0,
     dlStep |-> 0, dlLog |-> <<>>, partial |-> {}, emptyExit |-> FALSE,
     clip_id |-> 0, mediaLog |-> <<>>, probe |-> "none",
     status |-> 0, err |-> "none", cause |-> "none", clip_size |-> 0,
     rowAtLookup |-> FALSE, lookupFailed |-> FALSE, fileAtLookup |-> FALSE,
     saveRaised |-> FALSE, extClean |-> FALSE,
     nDownload |-> 0, nSave |-> 0, nUpdate |-> 0, nExtract |-> 0,
     orphan |-> "none", windowOver |-> FALSE,
     fetch |-> [status |-> 0, late |-> FALSE]]

Init ==
    /\ req = [r \in Procs |-> IdleReq]
    /\ db = {}
    /\ srcFiles = [i \in Ids |-> [e \in Exts |-> NoFile]]
    /\ clipFiles = [c \in 1..MaxReq |-> NoFile]
    /\ bgTasks = {}
    /\ nextClip = 1
    /\ issued = 0
    /\ calc = NoCalc

Exists(path) == path.id \in Ids /\ srcFiles[path.id][path.ext] # NoFile

\* FileManagerService.get_file_size on a source path
get_file_size(files, path) ==
    IF files[path.id][path.ext] = NoFile THEN 0 ELSE files[path.id][path.ext]

\* the endpoint's exception handlers: the status code for the exception class
\* that reached them ("url" InvalidURLException, "time"
\* InvalidTimeFormatException, "download" VideoDownloadException,
\* "processing" VideoProcessingException, anything else)
HandlerStatus(exc) == IF exc \in {"url", "time"} THEN 400 ELSE 500

\* the request ends with an error response; cause is what went wrong, exc the
\* exception class that reached the endpoint
Fail(q, cause, exc) ==
    [q EXCEPT !.pc = "done", !.status = HandlerStatus(exc), !.err = exc,
              !.cause = cause]

\* the request is refused by a validator of ClipRequest: the endpoint does not
\* run and, the application installing no handler of its own, the framework
\* answers 422
SchemaReject(q) ==
    [q EXCEPT !.pc = "done", !.status = 422, !.err = "validation",
              !.cause = "time_string"]

\* POST /clip up to the first await (the cache lookup)
Start(r, urls, ranges) ==
    /\ req[r].pc \in {"idle", "done"}
    /\ issued < MaxReq
    /\ issued' = issued + 1
    /\ \E url \in urls, rg \in ranges :
         LET q0 == [IdleReq EXCEPT !.url = url, !.start_time = rg[1],
                                   !.end_time = rg[2]]
             vid == extract_video_id(url)
         IN  req' = [req EXCEPT ![r] =
                 IF ~validate_time_format(rg[1]) \/ ~validate_time_format(rg[2])
                 THEN SchemaReject(q0)
                 ELSE IF vid = "" THEN Fail(q0, "url", "url")
                 ELSE [q0 EXCEPT !.pc = "lookup", !.video_id = vid]]
    /\ UNCHANGED <<db, srcFiles, clipFiles, bgTasks, nextClip, calc>>

\* ------------------------------------------------------------ the cache
\* YouTubeService.get_video_record: the active row of the identifier, or
\* NoRecord; any exception of the query is swallowed and NoRecord returned
get_video_record(rows, video_id, storageFails) ==
    LET found == {row \in rows : row.video_id = video_id /\ row.is_active}
    IN  IF storageFails \/ Cardinality(found) # 1 THEN NoRecord
        ELSE CHOOSE row \in found : TRUE

\* a table without a primary key
PrimaryKeyFree_None(rows, video_id) == TRUE

\* the primary key of video_downloads
PrimaryKeyFree(rows, video_id) == \A row \in rows : row.video_id # video_id

\* where the store can fail during save_video_record
SaveFaults == {"none", "commit", "refresh"}

\* YouTubeService.save_video_record: did it raise, and the table afterwards;
\* a commit that fails inserts nothing, a refresh that fails comes after the
\* insert
save_video_record(rows, video_id, file_path, file_size, fault) ==
    IF fault = "commit" \/ ~PrimaryKeyFree(rows, video_id)
    THEN [raised |-> TRUE, rows |-> rows]
    ELSE [raised |-> fault = "refresh",
          rows |-> rows \cup {[video_id |-> video_id, file_path |-> file_path,
                               file_size |-> file_size, is_active |-> TRUE]}]

\* an UPDATE that never writes the size column
UpdateRecord_PathOnly(rows, loaded, file_path, file_size) ==
    {IF row.video_id = loaded.video_id
     THEN [row EXCEPT !.file_path = file_path]
     ELSE row : row \in rows}

\* an UPDATE that also clears the active flag of the record
UpdateRecord_Deactivate(rows, loaded, file_path, file_size) ==
    {IF row.video_id = loaded.video_id
     THEN [row EXCEPT !.file_path = file_path, !.file_size = file_size,
                      !.is_active = FALSE]
     ELSE row : row \in rows}

\* the UPDATE flushed by db.commit() after the two attributes of the loaded
\* record were set: the session writes the columns whose attribute differs
\* from the value it loaded, in one statement, to the row of the primary key
UpdateRecord(rows, loaded, file_path, file_size) ==
    {IF row.video_id = loaded.video_id
     THEN [row EXCEPT
             !.file_path = IF file_path # loaded.file_path THEN file_path
                           ELSE @,
             !.file_size = IF file_size # loaded.file_size THEN file_size
                           ELSE @]
     ELSE row : row \in rows}

\* -------------------------------------------------- entering the services
\* an endpoint that writes the cache before the download has ended
BeginDownload_RecordFirst(q) ==
    [q EXCEPT !.pc = "dl", !.dlStep = 1, !.nDownload = @ + 1,
              !.dlLog = <<>>, !.partial = {}, !.emptyExit = FALSE,
              !.nSave = @ + 1]

\* download_video up to the launch of the primary attempt
BeginDownload(q) ==
    [q EXCEPT !.pc = "dl", !.dlStep = 1, !.nDownload = @ + 1,
              !.dlLog = <<>>, !.partial = {}, !.emptyExit = FALSE]

\* an except block that wraps every exception, its own classes included
ClipError_WrapAll(raised) == "processing"

\* the exception class create_clip lets out for one raised inside it: its own
\* two classes as they are, anything else as VideoProcessingException
ClipError(raised) ==
    IF raised \in {"time", "processing"} THEN raised ELSE "processing"

\* VideoProcessingService.create_clip up to the launch of the stream copy
BeginClip(r, q) ==
    /\ nextClip' = nextClip + 1
    /\ req' = [req EXCEPT ![r] =
         LET q1 == [q EXCEPT !.clip_id = nextClip, !.nExtract = @ + 1,
                             !.emptyExit = FALSE]
         IN  IF ClipRangeCheck(q.start_time, q.end_time) # "ok"
             THEN Fail(q1, "time", ClipError("time"))
             ELSE [q1 EXCEPT !.pc = "copy"]]

\* the cache lookup returns; the endpoint decides between miss, stale and hit
Lookup(r, faults) ==
    /\ req[r].pc = "lookup"
    /\ \E storageFails \in faults :
         LET q == req[r]
             rec == get_video_record(db, q.video_id, storageFails)
             q1 == [q EXCEPT !.video_record = rec,
                      !.lookupFailed = storageFails,
                      !.rowAtLookup = \E row \in db :
                          row.video_id = q.video_id /\ row.is_active,
                      !.fileAtLookup = \E row \in db :
                          /\ row.video_id = q.video_id /\ row.is_active
                          /\ Exists(row.file_path)]
         IN  IF rec = NoRecord
             THEN /\ req' = [req EXCEPT ![r] = BeginDownload(q1)]
                  /\ UNCHANGED nextClip
             ELSE LET q2 == [q1 EXCEPT !.video_path = rec.file_path]
                  IN  IF ~Exists(rec.file_path)
                      THEN /\ req' = [req EXCEPT ![r] = BeginDownload(q2)]
                           /\ UNCHANGED nextClip
                      ELSE BeginClip(r, q2)
    /\ UNCHANGED <<db, srcFiles, clipFiles, bgTasks, issued, calc>>

\* ------------------------------------------------------ the download chain
\* what one run of the download tool can do
DlOutcomes ==
    {[launch |-> FALSE, rc |-> 1, bot |-> FALSE, write |-> "none"]}
    \cup {[launch |-> TRUE, rc |-> 1, bot |-> b, write |-> w] :
            b \in BOOLEAN, w \in {"none", "part"}}
    \cup {[launch |-> TRUE, rc |-> 0, bot |-> FALSE, write |-> "none"]}
    \cup {[launch |-> TRUE, rc |-> 0, bot |-> FALSE, write |-> w] :
            w \in AcceptedExts}
MainDlOutcomes ==
    {o \in DlOutcomes : o.launch /\ o.write \in {"none", "mp4", "webm"}
                         /\ (o.rc = 0 \/ ~o.bot)}

\* the size of what step k writes: a fragment, the worst-quality file of the
\* final step, the best-quality file of the other steps, whose size differs
\* between the containers
WrittenSize(k, ext) ==
    IF ext = "part" THEN 1
    ELSE IF k = Len(Steps) THEN 100
    ELSE IF ext = "mp4" THEN 200 ELSE 150

WriteSource(files, id, k, o) ==
    IF o.write = "none" THEN files
    ELSE [files EXCEPT ![id][o.write] = WrittenSize(k, o.write)]

\* a search that takes any file with the identifier prefix
FoundFiles_AnyPrefix(files, id) ==
    IF files[id]["mp4"] # NoFile THEN {"mp4"}
    ELSE {e \in Exts : files[id][e] # NoFile}

\* "Find the downloaded file": the extensions the search can end on
FoundFiles(files, id) ==
    IF files[id]["mp4"] # NoFile THEN {"mp4"}
    ELSE {e \in AcceptedExts : files[id][e] # NoFile}

\* the reason a step ended for
StepRes(o, found) ==
    IF ~o.launch THEN "launch_error"
    ELSE IF o.rc # 0 THEN (IF o.bot THEN "exit_bot" ELSE "exit_error")
    ELSE IF found = {} THEN "no_file" ELSE "file"

\* a test that sends every non-zero exit of the primary attempt to the chain
NeedsFallback_AnyExit(res) == res \in {"exit_bot", "exit_error"}

\* the bot-detection test on the primary attempt's error text
NeedsFallback(res) == res = "exit_bot"

\* the chain without its final unauthenticated step
DlResult_NoFinal(k, res) ==
    IF res = "file" THEN "return"
    ELSE IF k = 1 THEN (IF res = "exit_bot" THEN "next" ELSE "raise")
    ELSE IF k <= Len(fallback_browsers) THEN "next"
    ELSE "raise"

\* the chain given up at the first alternate context that fails
DlResult_StopEarly(k, res) ==
    IF res = "file" THEN "return"
    ELSE IF k = 1 /\ res = "exit_bot" THEN "next"
    ELSE "raise"

\* what the chain does after step k ended for reason res
DlResult(k, res) ==
    IF res = "file" THEN "return"
    ELSE IF k = 1 THEN (IF NeedsFallback(res) THEN "next" ELSE "raise")
    ELSE IF k <= Len(fallback_browsers) + 1 THEN "next"
    ELSE "raise"

\* an endpoint that never inserts: every download is treated as a repair
AfterDownload_NoSave(q, path, files) ==
    [q EXCEPT !.video_path = path, !.file_size = get_file_size(files, path),
              !.dlStep = 0, !.extClean = FALSE,
              !.pc = "reconcile", !.nUpdate = @ + 1]

\* an endpoint that answers as soon as the video is on disk
AfterDownload_AnswerEarly(q, path, files) ==
    [q EXCEPT !.video_path = path, !.file_size = get_file_size(files, path),
              !.dlStep = 0, !.extClean = FALSE,
              !.pc = "done", !.status = 200]

\* download_video returned path to the endpoint
AfterDownload(q, path, files) ==
    LET size == get_file_size(files, path)
        q1 == [q EXCEPT !.video_path = path, !.file_size = size, !.dlStep = 0,
                        !.extClean = FALSE]
    IN  IF q.video_record = NoRecord
        THEN [q1 EXCEPT !.pc = "save", !.nSave = @ + 1]
        ELSE [q1 EXCEPT !.pc = "reconcile", !.nUpdate = @ + 1]

\* one run of the download tool ends (steps of download_video and of
\* _download_with_fallback)
DlStep(r, outcomes) ==
    /\ req[r].pc = "dl"
    /\ \E o \in outcomes :
         LET q == req[r]
             k == q.dlStep
             files == WriteSource(srcFiles, q.video_id, k, o)
             found == FoundFiles(files, q.video_id)
             res == StepRes(o, found)
             entry == [step |-> Steps[k],
                       res |-> IF k = 1 \/ res = "file" THEN res ELSE "fail"]
             q1 == [q EXCEPT !.dlLog = Append(@, entry),
                      !.partial = IF o.write = "part" THEN @ \cup {"part"}
                                  ELSE @,
                      !.emptyExit = @ \/ (k > 1 /\ res = "no_file")]
             act == DlResult(k, res)
         IN  /\ srcFiles' = files
             /\ IF act = "return"
                THEN \E e \in found :
                       req' = [req EXCEPT ![r] =
                         AfterDownload(q1, [id |-> q.video_id, ext |-> e],
                                       files)]
                ELSE IF act = "next"
                THEN req' = [req EXCEPT ![r] = [q1 EXCEPT !.dlStep = k + 1]]
                ELSE req' = [req EXCEPT ![r] =
                         Fail(q1, "acquisition", "download")]
    /\ UNCHANGED <<db, clipFiles, bgTasks, nextClip, issued, calc>>

\* save_video_record ends
Save(r, faults) ==
    /\ req[r].pc = "save"
    /\ \E fault \in faults :
         LET q == req[r]
             res == save_video_record(db, q.video_id, q.video_path,
                                      q.file_size, fault)
         IN  /\ db' = res.rows
             /\ IF res.raised
                THEN /\ req' = [req EXCEPT ![r] =
                         Fail([q EXCEPT !.saveRaised = TRUE], "storage",
                              "unexpected")]
                     /\ UNCHANGED nextClip
                ELSE BeginClip(r, q)
    /\ UNCHANGED <<srcFiles, clipFiles, bgTasks, issued, calc>>

\* the commit that repairs a stale record ends; from then on the record
\* object of the session holds the two attributes that were set
Reconcile(r, faults) ==
    /\ req[r].pc = "reconcile"
    /\ \E storageFails \in faults :
         LET q == req[r]
             q1 == [q EXCEPT !.video_record.file_path = q.video_path,
                             !.video_record.file_size = q.file_size]
         IN  IF storageFails
             THEN /\ req' = [req EXCEPT ![r] =
                       Fail(q1, "storage", "unexpected")]
                  /\ UNCHANGED <<db, nextClip>>
             ELSE /\ db' = UpdateRecord(db, q.video_record, q.video_path,
                                        q.file_size)
                  /\ BeginClip(r, q1)
    /\ UNCHANGED <<srcFiles, clipFiles, bgTasks, issued, calc>>

\* ------------------------------------------------------- clip extraction
\* what one run of the media tool can do: the launch raises, or it exits with
\* rc and leaves the output path absent or with size out
MediaOutcomes ==
    {[launch |-> FALSE, rc |-> 1, out |-> NoFile]}
    \cup {[launch |-> TRUE, rc |-> c, out |-> s] :
            c \in {0, 1}, s \in {NoFile} \cup ClipSizes}

MainMediaOutcomes ==
    {o \in MediaOutcomes : o.launch /\ o.out \in {NoFile, 1001}
                            /\ (o.rc = 0 <=> o.out = 1001)}

\* a check that forgets the size threshold
stream_copy_success_NoThreshold(rc, out) == rc = 0 /\ out # NoFile

\* "Check if stream copy produced a valid file"
stream_copy_success(rc, out) == rc = 0 /\ out # NoFile /\ out > MinCopySize

\* final checks that accept an empty output file
ClipUsable_AllowEmpty(rc, out) == rc = 0 /\ out # NoFile

\* the checks after the last media run: exit status, then missing or empty
ClipUsable(rc, out) == rc = 0 /\ out # NoFile /\ out # 0

\* create_clip's except block: remove the output, re-raise
FailClip(q, raised) == Fail(q, "extraction", ClipError(raised))

\* a fallback that leaves the stream copy's output in place
RemoveCopyOutput_Keep(out) == out

\* "Remove failed stream copy file if it exists": the output path afterwards
RemoveCopyOutput(out) == NoFile

\* the stream-copy run ends
Copy(r, outcomes) ==
    /\ req[r].pc = "copy"
    /\ \E o \in outcomes :
         LET q == req[r]
             q1 == [q EXCEPT !.mediaLog = Append(@,
                       [phase |-> "copy", launch |-> o.launch, rc |-> o.rc,
                        out |-> o.out])]
         IN  IF ~o.launch
             THEN /\ req' = [req EXCEPT ![r] = FailClip(q1, "other")]
                  /\ clipFiles' = [clipFiles EXCEPT ![q.clip_id] = NoFile]
             ELSE IF stream_copy_success(o.rc, o.out)
             THEN /\ req' = [req EXCEPT ![r] = [q1 EXCEPT !.pc = "probe"]]
                  /\ clipFiles' = [clipFiles EXCEPT ![q.clip_id] = o.out]
             ELSE /\ req' = [req EXCEPT ![r] = [q1 EXCEPT !.pc = "encode"]]
                  /\ clipFiles' = [clipFiles EXCEPT ![q.clip_id] =
                                      RemoveCopyOutput(o.out)]
    /\ UNCHANGED <<db, srcFiles, bgTasks, nextClip, issued, calc>>

\* the re-encode run ends
Encode(r, outcomes) ==
    /\ req[r].pc = "encode"
    /\ \E o \in outcomes :
         LET q == req[r]
             q1 == [q EXCEPT !.mediaLog = Append(@,
                       [phase |-> "encode", launch |-> o.launch, rc |-> o.rc,
                        out |-> o.out])]
         IN  IF o.launch /\ ClipUsable(o.rc, o.out)
             THEN /\ req' = [req EXCEPT ![r] = [q1 EXCEPT !.pc = "probe"]]
                  /\ clipFiles' = [clipFiles EXCEPT ![q.clip_id] = o.out]
             ELSE /\ req' = [req EXCEPT ![r] =
                       FailClip(q1, IF o.launch THEN "processing"
                                    ELSE "other")]
                  /\ clipFiles' = [clipFiles EXCEPT ![q.clip_id] = NoFile]
    /\ UNCHANGED <<db, srcFiles, bgTasks, nextClip, issued, calc>>

\* what the probe run can do
ProbeOutcomes ==
    {"launch_error", "exit_error", "unparsable", "zero_packets", "ok"}

MainProbeOutcomes == {"ok"}

\* _validate_output_file: does it raise
_validate_output_file(o) == o # "ok"

\* a validation whose exception is not caught
ValidationFatal_Raise(raised) == raised

\* create_clip's handling of a validation that raised: TRUE iff the clip is
\* given up
ValidationFatal(raised) == FALSE

\* the probe run ends; create_clip returns and the endpoint answers
Probe(r, outcomes) ==
    /\ req[r].pc = "probe"
    /\ \E o \in outcomes :
         LET q == req[r]
             q1 == [q EXCEPT !.probe = IF _validate_output_file(o)
                                       THEN "raised" ELSE "passed"]
         IN  IF ValidationFatal(_validate_output_file(o))
             THEN /\ req' = [req EXCEPT ![r] = FailClip(q1, "processing")]
                  /\ clipFiles' = [clipFiles EXCEPT ![q.clip_id] = NoFile]
                  /\ UNCHANGED bgTasks
             ELSE /\ req' = [req EXCEPT ![r] =
                       [q1 EXCEPT !.pc = "done", !.status = 200,
                          !.clip_size = IF clipFiles[q.clip_id] = NoFile
                                        THEN 0 ELSE clipFiles[q.clip_id]]]
                  /\ bgTasks' = bgTasks \cup {q.clip_id}
                  /\ UNCHANGED clipFiles
    /\ UNCHANGED <<db, srcFiles, nextClip, issued, calc>>

\* FileManagerService.cleanup_file on a path that exists or not, with an
\* os.remove that raises or not: the flag returned and whether the path
\* exists afterwards
cleanup_file_returns(exists, removeRaises) ==
    IF ~exists THEN [ret |-> FALSE, exists |-> FALSE]
    ELSE IF removeRaises THEN [ret |-> FALSE, exists |-> TRUE]
    ELSE [ret |-> TRUE, exists |-> FALSE]

\* FileManagerService.cleanup_file run as the background task of a response
cleanup_file(c) ==
    /\ c \in bgTasks
    /\ bgTasks' = bgTasks \ {c}
    /\ clipFiles' = [clipFiles EXCEPT ![c] =
           IF cleanup_file_returns(@ # NoFile, FALSE).exists THEN @
           ELSE NoFile]
    /\ UNCHANGED <<req, db, srcFiles, nextClip, issued, calc>>

\* the disk is cleaned from outside the program
ExternalClean(i) ==
    /\ \E e \in Exts : srcFiles[i][e] # NoFile
    /\ srcFiles' = [srcFiles EXCEPT ![i] = [e \in Exts |-> NoFile]]
    /\ req' = [r \in Procs |->
                 IF req[r].video_id = i THEN [req[r] EXCEPT !.extClean = TRUE]
                 ELSE req[r]]
    /\ UNCHANGED <<db, clipFiles, bgTasks, nextClip, issued, calc>>

\* ------------------------------------------------ the helpers on their own
\* every sequence of 1..n elements of S
SeqsUpTo(S, n) == UNION {[1..k -> S] : k \in 1..n}

Parts == {IntPart(0), IntPart(1), IntPart(-1), FracPart(500), BadPart}
TimeStrings == SeqsUpTo(Parts, MaxParts)

T_neg_01_00 == <<IntPart(-1), IntPart(0)>>
RangeTimes ==
    {T_00_00_00, T_00_00_10, T_00_00_30, T_00_00_40, T_00_01_00, T_01_00_00,
     T_01_00_01, T_neg_01_00, T_bad_00}
SourceDurations == {NoDuration, 0, 30000, 3600000}

\* offsets in milliseconds, with and without carries between the fields
Offsets ==
    {h * 3600000 + m * 60000 + sec * 1000 + f :
        h \in {0, 1, 100}, m \in {0, 59}, sec \in {0, 59}, f \in {0, 1, 999}}

UrlPieces ==
    {Slash, Dot, VEquals, EmbedSlash, YoutuBeSlash, Run(TokenLen, "a"), Word}
StartsInClass(p) == p.txt \in {"run", "v=", "embed/", "youtu.be/"}
WellFormedUrl(url) ==
    \A i \in 1..(Len(url) - 1) :
        url[i].txt = "run" => ~StartsInClass(url[i + 1])
TestUrls ==
    {url \in SeqsUpTo(UrlPieces, MaxUrlLen) : WellFormedUrl(url)}
    \cup {WatchUrl("a"), EmbedUrl("a"), ShortUrl("a"), NoTokenUrl}

\* _time_to_seconds on one string, and the string formatted from its result
\* parsed again
CallTimeToSeconds ==
    /\ calc.op = "none"
    /\ \E t \in TimeStrings :
         LET res == _time_to_seconds(t)
         IN  calc' = [op |-> "_time_to_seconds", t |-> t, res |-> res,
                      again |-> IF res.ok
                                THEN _time_to_seconds(
                                         _seconds_to_time_format(res.v))
                                ELSE TimeErr]
    /\ UNCHANGED pipeline

\* _seconds_to_time_format on one offset, and its text parsed back
CallSecondsToTimeFormat ==
    /\ calc.op = "none"
    /\ \E x \in Offsets :
         calc' = [op |-> "_seconds_to_time_format", x |-> x,
                  text |-> _seconds_to_time_format(x),
                  back |-> _time_to_seconds(_seconds_to_time_format(x))]
    /\ UNCHANGED pipeline

\* validate_time_range and create_clip's own check on the same two strings
CallValidateTimeRange ==
    /\ calc.op = "none"
    /\ \E start_time \in RangeTimes, end_time \in RangeTimes,
          video_duration \in SourceDurations :
         calc' = [op |-> "validate_time_range", start_time |-> start_time,
                  end_time |-> end_time, video_duration |-> video_duration,
                  res |-> validate_time_range(start_time, end_time,
                                              video_duration),
                  clip |-> ClipRangeCheck(start_time, end_time)]
    /\ UNCHANGED pipeline

\* extract_video_id on one URL
CallExtractVideoId ==
    /\ calc.op = "none"
    /\ \E url \in TestUrls :
         calc' = [op |-> "extract_video_id", url |-> url,
                  res |-> extract_video_id(url)]
    /\ UNCHANGED pipeline

\* cleanup_file on one path
CallCleanupFile ==
    /\ calc.op = "none"
    /\ \E exists \in BOOLEAN, removeRaises \in BOOLEAN :
         calc' = [op |-> "cleanup_file", existed |-> exists,
                  removeRaises |-> removeRaises,
                  res |-> cleanup_file_returns(exists, removeRaises)]
    /\ UNCHANGED pipeline

\* one call of one helper
NextHelpers ==
    \/ CallTimeToSeconds
    \/ CallSecondsToTimeFormat
    \/ CallValidateTimeRange
    \/ CallExtractVideoId
    \/ CallCleanupFile

SpecHelpers == Init /\ [][NextHelpers]_vars

\* requests one after the other; every outcome of the download tool, the main
\* outcomes of the media tool and of the probe
Next ==
    \/ \E r \in SeqProcs : Start(r, Urls, Ranges)
    \/ \E r \in SeqProcs : Lookup(r, BOOLEAN)
    \/ \E r \in SeqProcs : DlStep(r, DlOutcomes)
    \/ \E r \in SeqProcs : Save(r, SaveFaults)
    \/ \E r \in SeqProcs : Reconcile(r, BOOLEAN)
    \/ \E r \in SeqProcs : Copy(r, MainMediaOutcomes)
    \/ \E r \in SeqProcs : Encode(r, MainMediaOutcomes)
    \/ \E r \in SeqProcs : Probe(r, MainProbeOutcomes)
    \/ \E c \in 1..MaxReq : cleanup_file(c)
    \/ \E i \in Ids : ExternalClean(i)

Spec == Init /\ [][Next]_vars

\* requests one after the other; the main outcomes of the download tool, every
\* outcome of the media tool and of the probe
NextClip ==
    \/ \E r \in SeqProcs : Start(r, Urls, Ranges)
    \/ \E r \in SeqProcs : Lookup(r, BOOLEAN)
    \/ \E r \in SeqProcs : DlStep(r, MainDlOutcomes)
    \/ \E r \in SeqProcs : Save(r, SaveFaults)
    \/ \E r \in SeqProcs : Reconcile(r, BOOLEAN)
    \/ \E r \in SeqProcs : Copy(r, MediaOutcomes)
    \/ \E r \in SeqProcs : Encode(r, MediaOutcomes)
    \/ \E r \in SeqProcs : Probe(r, ProbeOutcomes)
    \/ \E c \in 1..MaxReq : cleanup_file(c)
    \/ \E i \in Ids : ExternalClean(i)

SpecClip == Init /\ [][NextClip]_vars

\* concurrent requests; the main outcomes of every external process, a store
\* that stays reachable
NextConc ==
    \/ \E r \in Procs : Start(r, ConcUrls, ConcRanges)
    \/ \E r \in Procs : Lookup(r, {FALSE})
    \/ \E r \in Procs : DlStep(r, MainDlOutcomes)
    \/ \E r \in Procs : Save(r, {"none"})
    \/ \E r \in Procs : Reconcile(r, {FALSE})
    \/ \E r \in Procs : Copy(r, MainMediaOutcomes)
    \/ \E r \in Procs : Encode(r, MainMediaOutcomes)
    \/ \E r \in Procs : Probe(r, MainProbeOutcomes)
    \/ \E c \in 1..MaxReq : cleanup_file(c)
    \/ \E i \in Ids : ExternalClean(i)

SpecConc == Init /\ [][NextConc]_vars

\* requests one after the other for one video and one range, every outcome of
\* every external process, a store that stays reachable; every external
\* process that was started ends
NextLive ==
    \/ \E r \in SeqProcs : Start(r, {WatchUrl("a")}, ConcRanges)
    \/ \E r \in SeqProcs : Lookup(r, {FALSE})
    \/ \E r \in SeqProcs : DlStep(r, DlOutcomes)
    \/ \E r \in SeqProcs : Save(r, {"none"})
    \/ \E r \in SeqProcs : Reconcile(r, {FALSE})
    \/ \E r \in SeqProcs : Copy(r, MediaOutcomes)
    \/ \E r \in SeqProcs : Encode(r, MediaOutcomes)
    \/ \E r \in SeqProcs : Probe(r, ProbeOutcomes)
    \/ \E c \in 1..MaxReq : cleanup_file(c)
    \/ \E i \in Ids : ExternalClean(i)

SpecLive ==
    /\ Init /\ [][NextLive]_vars
    /\ \A r \in SeqProcs :
         /\ WF_vars(DlStep(r, DlOutcomes))
         /\ WF_vars(Copy(r, MediaOutcomes))
         /\ WF_vars(Encode(r, MediaOutcomes))
         /\ WF_vars(Probe(r, ProbeOutcomes))

\* ------------------------------------------------------------ the client
\* the coroutine of the request is suspended in process.communicate()
AwaitsProcess(q) == q.pc \in {"dl", "copy", "encode", "probe"}

\* does an `except Exception` clause catch asyncio.CancelledError: it does
\* not, the class derives from BaseException
CatchesCancel(handler) == FALSE

\* what the interrupted tool has written so far: nothing, or a fragment
PartialSizes == {NoFile, 1}

\* the task of the request is cancelled while it awaits an external process
\* (the client went away, the server shuts down): CancelledError is raised at
\* the await, passes the except clauses of the service and of the endpoint,
\* and the process, which nothing terminates, stays behind
Cancel(r) ==
    /\ AwaitsProcess(req[r])
    /\ \E part \in PartialSizes :
         LET q == req[r]
             caught == CatchesCancel("Exception")
             q1 == [q EXCEPT !.pc = "cancelled", !.orphan = q.pc]
         IN  /\ req' = [req EXCEPT ![r] = q1]
             /\ IF q.pc = "dl"
                THEN /\ srcFiles' =
                          IF part = NoFile THEN srcFiles
                          ELSE [srcFiles EXCEPT ![q.video_id]["part"] = part]
                     /\ UNCHANGED clipFiles
                ELSE /\ clipFiles' =
                          IF caught
                          THEN [clipFiles EXCEPT ![q.clip_id] = NoFile]
                          ELSE IF q.pc = "probe" \/ part = NoFile
                          THEN clipFiles
                          ELSE [clipFiles EXCEPT ![q.clip_id] = part]
                     /\ UNCHANGED srcFiles
    /\ UNCHANGED <<db, bgTasks, nextClip, issued, calc>>

\* the process left behind by a cancelled request ends: by itself, having
\* written its output, or killed when its transport is collected
OrphanEnds(r) ==
    /\ req[r].pc = "cancelled" /\ req[r].orphan # "none"
    /\ \E completed \in BOOLEAN :
         LET q == req[r]
         IN  /\ req' = [req EXCEPT ![r] = [q EXCEPT !.orphan = "none"]]
             /\ IF completed /\ q.orphan = "dl"
                THEN /\ srcFiles' = [srcFiles EXCEPT ![q.video_id]["mp4"] =
                                        WrittenSize(q.dlStep, "mp4")]
                     /\ UNCHANGED clipFiles
                ELSE IF completed /\ q.orphan \in {"copy", "encode"}
                THEN /\ clipFiles' = [clipFiles EXCEPT ![q.clip_id] = 1001]
                     /\ UNCHANGED srcFiles
                ELSE UNCHANGED <<srcFiles, clipFiles>>
    /\ UNCHANGED <<db, bgTasks, nextClip, issued, calc>>

\* one hour has passed since the response to r ("Schedule cleanup after 1
\* hour"); nothing in the program waits for it
RetentionWindowEnds(r) ==
    /\ req[r].pc = "done" /\ req[r].status = 200
    /\ ~req[r].windowOver
    /\ req' = [req EXCEPT ![r].windowOver = TRUE]
    /\ UNCHANGED <<db, srcFiles, clipFiles, bgTasks, nextClip, issued, calc>>

\* GET /download/{clip_id} for the clip identifier returned to r
download_clip(r) ==
    /\ req[r].pc = "done" /\ req[r].status = 200
    /\ req[r].fetch.status = 0
    /\ req' = [req EXCEPT ![r].fetch =
           [status |-> IF clipFiles[req[r].clip_id] = NoFile THEN 404
                       ELSE 200,
            late |-> req[r].windowOver]]
    /\ UNCHANGED <<db, srcFiles, clipFiles, bgTasks, nextClip, issued, calc>>

\* requests one after the other for one video, the main outcomes of every
\* external process, a store that stays reachable, and a client that can go
\* away during a request and fetch the clip after it
NextClient ==
    \/ \E r \in SeqProcs : Start(r, {WatchUrl("a")}, ConcRanges)
    \/ \E r \in SeqProcs : Lookup(r, {FALSE})
    \/ \E r \in SeqProcs : DlStep(r, MainDlOutcomes)
    \/ \E r \in SeqProcs : Save(r, {"none"})
    \/ \E r \in SeqProcs : Reconcile(r, {FALSE})
    \/ \E r \in SeqProcs : Copy(r, MainMediaOutcomes)
    \/ \E r \in SeqProcs : Encode(r, MainMediaOutcomes)
    \/ \E r \in SeqProcs : Probe(r, MainProbeOutcomes)
    \/ \E c \in 1..MaxReq : cleanup_file(c)
    \/ \E i \in Ids : ExternalClean(i)
    \/ \E r \in SeqProcs : Cancel(r)
    \/ \E r \in SeqProcs : OrphanEnds(r)
    \/ \E r \in SeqProcs : RetentionWindowEnds(r)
    \/ \E r \in SeqProcs : download_clip(r)

SpecClient == Init /\ [][NextClient]_vars

\* a table left by earlier requests and by the operator of the service: the
\* record of video "a", saved after a download that ended on the final step,
\* whose file is gone from the disk; the record is active or deactivated
SeededRow ==
    [video_id |-> "a", file_path |-> [id |-> "a", ext |-> "mp4"],
     file_size |-> WrittenSize(Len(Steps), "mp4"), is_active |-> TRUE]
SeededTables == {{SeededRow}, {[SeededRow EXCEPT !.is_active = FALSE]}}

InitSeeded ==
    /\ req = [r \in Procs |-> IdleReq]
    /\ db \in SeededTables
    /\ srcFiles = [i \in Ids |-> [e \in Exts |-> NoFile]]
    /\ clipFiles = [c \in 1..MaxReq |-> NoFile]
    /\ bgTasks = {}
    /\ nextClip = 1
    /\ issued = 0
    /\ calc = NoCalc

\* concurrent requests for the video of the seeded record; the main outcomes
\* of every external process, a store that stays reachable
NextSeeded ==
    \/ \E r \in Procs : Start(r, {WatchUrl("a")}, ConcRanges)
    \/ \E r \in Procs : Lookup(r, {FALSE})
    \/ \E r \in Procs : DlStep(r, MainDlOutcomes)
    \/ \E r \in Procs : Save(r, {"none"})
    \/ \E r \in Procs : Reconcile(r, {FALSE})
    \/ \E r \in Procs : Copy(r, MainMediaOutcomes)
    \/ \E r \in Procs : Encode(r, MainMediaOutcomes)
    \/ \E r \in Procs : Probe(r, MainProbeOutcomes)
    \/ \E c \in 1..MaxReq : cleanup_file(c)
    \/ \E i \in Ids : ExternalClean(i)

SpecSeeded == InitSeeded /\ [][NextSeeded]_vars

\* ------------------------------------------------------------- properties
DownloadRaised(q) == q.pc = "done" /\ q.err = "download"

\* every step of the chain was run, in order, and none returned a file
ChainExhausted(q) ==
    /\ Len(q.dlLog) = Len(Steps)
    /\ \A k \in 1..Len(Steps) :
         q.dlLog[k].step = Steps[k] /\ q.dlLog[k].res # "file"

C2_FallbackOrder ==
    \A r \in Procs :
        LET q == req[r]
            L == q.dlLog
        IN  (Len(L) >= 1 /\ L[1].res = "exit_bot") =>
              /\ Len(L) <= Len(Steps)
              /\ \A k \in 1..Len(L) : L[k].step = Steps[k]
              /\ \A k \in 1..Len(L) : k < Len(L) => L[k].res # "file"
              /\ (q.pc = "dl" => L[Len(L)].res # "file"
                                  /\ q.dlStep = Len(L) + 1)
              /\ (L[Len(L)].res = "file" => q.nSave + q.nUpdate = 1)
              /\ (DownloadRaised(q) =>
                    Len(L) = Len(Steps) /\ L[Len(L)].step = "final"
                    /\ L[Len(L)].res # "file")

C2_Witness ==
    \E r \in Procs :
        LET L == req[r].dlLog
        IN  /\ Len(L) = 3
            /\ L[1].res = "exit_bot"
            /\ L[2].step = "firefox" /\ L[2].res = "fail"
            /\ L[3].step = "edge" /\ L[3].res = "file"
            /\ req[r].pc # "dl"

Succeeded(q) == q.pc = "done" /\ q.status = 200

\* C3: a successful request that found no record made exactly one download,
\* one cache save and one extraction and returned a clip of size > 0; a
\* request that found a record whose file is on disk makes no download and no
\* cache write, and when it succeeds it made exactly one extraction.
C3_CacheEndToEnd ==
    \A r \in Procs :
        LET q == req[r]
        IN  /\ (Succeeded(q) /\ ~q.rowAtLookup) =>
                 /\ q.nDownload = 1 /\ q.nSave = 1 /\ ~q.saveRaised
                 /\ q.nUpdate = 0 /\ q.nExtract = 1 /\ q.clip_size > 0
            /\ (Succeeded(q) /\ q.rowAtLookup /\ q.fileAtLookup) =>
                 /\ q.nDownload = 0 /\ q.nSave = 0 /\ q.nUpdate = 0
                 /\ q.nExtract = 1 /\ q.clip_size > 0
            /\ (q.rowAtLookup /\ q.fileAtLookup /\ ~q.lookupFailed) =>
                 q.nDownload = 0 /\ q.nSave = 0 /\ q.nUpdate = 0

C3_Witness ==
    \E r \in Procs :
        /\ issued = 2
        /\ Succeeded(req[r])
        /\ req[r].rowAtLookup /\ req[r].fileAtLookup
        /\ req[r].nDownload = 0 /\ req[r].nExtract = 1
        /\ \E row \in db : row.video_id = req[r].video_id

StaleObserved(q) == q.rowAtLookup /\ ~q.fileAtLookup /\ ~q.lookupFailed

\* C4: a request whose lookup returned an active record with a missing file
\* downloads once, never inserts, and when its extraction starts the same
\* record carries the path and size of the downloaded file, which is on disk
\* unless the disk was cleaned again since; the identifier keeps one record.
C4_StaleRepair ==
    \A r \in Procs :
        LET q == req[r]
        IN  StaleObserved(q) =>
              /\ q.nSave = 0 /\ q.nDownload = 1 /\ q.nUpdate <= 1
              /\ Cardinality({row \in db : row.video_id = q.video_id}) = 1
              /\ q.nExtract = 1 =>
                   /\ q.nUpdate = 1
                   /\ \E row \in db :
                        /\ row.video_id = q.video_id /\ row.is_active
                        /\ row.file_path = q.video_path
                        /\ row.file_size = q.file_size
                        /\ ~q.extClean =>
                             /\ Exists(row.file_path)
                             /\ get_file_size(srcFiles, row.file_path)
                                  = row.file_size

C4_Witness ==
    \E r \in Procs :
        /\ StaleObserved(req[r])
        /\ Succeeded(req[r])
        /\ req[r].nUpdate = 1
        /\ ~req[r].extClean

\* C5 as stated: a request whose save_video_record raised after a successful
\* download is not aborted: it goes on to extract the clip.
C5_FailedSaveNonFatal ==
    \A r \in Procs :
        req[r].saveRaised =>
            (req[r].pc = "done" => req[r].nExtract = 1
                                   /\ req[r].err # "unexpected")

\* C6 as stated: a storage failure during lookup is propagated as an error
\* and never treated as absence, so it never starts a download.
C6_LookupFailurePropagates ==
    \A r \in Procs :
        req[r].lookupFailed =>
            /\ req[r].nDownload = 0
            /\ req[r].pc = "done" /\ req[r].status = 500

C8_Criterion(e) == e.rc = 0 /\ e.out # NoFile /\ e.out > 1000

\* C8: the media tool runs at most twice, stream copy first and re-encode
\* second; after a stream copy that ran, the re-encode is started if and only
\* if the copy did not exit 0 with an output larger than 1000 bytes; so the
\* tool has run once when the copy met the criterion and twice otherwise.
C8_TwoPhase ==
    \A r \in Procs :
        LET q == req[r]
            L == q.mediaLog
        IN  /\ Len(L) <= 2
            /\ Len(L) >= 1 => L[1].phase = "copy"
            /\ Len(L) = 2 => L[2].phase = "encode" /\ L[1].launch
            /\ q.pc = "encode" => Len(L) = 1
            /\ (Len(L) >= 1 /\ L[1].launch) =>
                 /\ (Len(L) = 2 \/ q.pc = "encode") <=> ~C8_Criterion(L[1])
                 /\ q.pc \in {"probe", "done"} =>
                      Len(L) = IF C8_Criterion(L[1]) THEN 1 ELSE 2

C8_Witness ==
    \E r \in Procs :
        LET L == req[r].mediaLog
        IN  /\ Succeeded(req[r])
            /\ Len(L) = 2
            /\ L[1].rc = 0 /\ L[1].out = 1000
            /\ L[2].rc = 0

\* C9 as stated: when acquisition or extraction has failed, nothing the
\* failed attempts wrote is left: neither the clip output nor a fragment
\* under the identifier prefix.
C9_NoOrphanedPartials ==
    \A r \in Procs :
        LET q == req[r]
        IN  /\ DownloadRaised(q) =>
                 \A e \in q.partial : srcFiles[q.video_id][e] = NoFile
            /\ (q.pc = "done" /\ q.err = "processing") =>
                 clipFiles[q.clip_id] = NoFile

\* C10: once the probe has run, whether the validation passed or raised (probe
\* not launched, non-zero exit, unparsable output, zero packets), the request
\* has succeeded with a non-empty clip, and the clip file stays on disk until
\* the deferred cleanup removes it.
C10_ProbeNotAGate ==
    \A r \in Procs :
        LET q == req[r]
        IN  q.probe # "none" =>
              /\ Succeeded(q)
              /\ q.clip_size > 0
              /\ q.clip_id \in bgTasks => clipFiles[q.clip_id] = q.clip_size

C10_Witness ==
    \E r \in Procs :
        /\ req[r].probe = "raised"
        /\ Succeeded(req[r])
        /\ clipFiles[req[r].clip_id] # NoFile

\* the external process of request q is writing a source file
WritingSource(q) == q.pc = "dl"

\* the external process of request q is writing a clip output
WritingClip(q) == q.pc \in {"copy", "encode"}

\* request r takes a step
Acted(r) ==
    [req'[r] EXCEPT !.extClean = FALSE] # [req[r] EXCEPT !.extClean = FALSE]

\* C11 as stated: while the external process of one request is writing a
\* source file or a clip output, no step of another request writes, replaces
\* or deletes that file, also when both requests are for the same identifier.
C11_NoOverwriteInFlight ==
    [][\A r1, r2 \in Procs :
         (r1 # r2 /\ Acted(r1)) =>
            /\ WritingSource(req[r2]) =>
                 srcFiles'[req[r2].video_id] = srcFiles[req[r2].video_id]
            /\ WritingClip(req[r2]) =>
                 clipFiles'[req[r2].clip_id] = clipFiles[req[r2].clip_id]]_vars

\* what the request of a validate_time_range call parsed to
ParsedStart == _time_to_seconds(calc.start_time).v
ParsedEnd == _time_to_seconds(calc.end_time).v
BothParsed ==
    /\ _time_to_seconds(calc.start_time).ok
    /\ _time_to_seconds(calc.end_time).ok

\* C12 as stated: validate_time_range on two parsable strings fails exactly
\* when start or end is negative, start >= end, end - start exceeds the
\* maximum of 3600 s, or a source duration is supplied and end exceeds it.
C12_ValidateTimeRange ==
    (calc.op = "validate_time_range" /\ BothParsed) =>
        (calc.res # "ok" <=>
            \/ ParsedStart < 0 \/ ParsedEnd < 0
            \/ ParsedStart >= ParsedEnd
            \/ ParsedEnd - ParsedStart > 3600 * 1000
            \/ (calc.video_duration # NoDuration
                /\ ParsedEnd > calc.video_duration))

\* the components of t are numeric: integers, the last one possibly decimal
NumericParts(t) ==
    /\ \A i \in 1..(Len(t) - 1) : t[i].kind = "int"
    /\ t[Len(t)].kind \in {"int", "frac"}

\* hours * 3600 + minutes * 60 + seconds of t, in milliseconds, the fields
\* counted from the right
FieldValue(t) ==
    t[Len(t)].v
    + (IF Len(t) >= 2 THEN t[Len(t) - 1].v * 60 ELSE 0)
    + (IF Len(t) >= 3 THEN t[Len(t) - 2].v * 3600 ELSE 0)

\* C13 as stated: _time_to_seconds accepts SS, MM:SS and HH:MM:SS with
\* numeric components and returns hours*3600 + minutes*60 + seconds; it fails
\* for every other number of components and for a non-numeric component.
C13_AcceptsSSForm ==
    calc.op = "_time_to_seconds" =>
        IF Len(calc.t) \in {1, 2, 3} /\ NumericParts(calc.t)
        THEN calc.res.ok /\ calc.res.v = FieldValue(calc.t)
        ELSE ~calc.res.ok

\* C13 amended: _time_to_seconds accepts MM:SS and HH:MM:SS with numeric
\* components (integers, the seconds possibly decimal) and returns
\* hours*3600 + minutes*60 + seconds; it fails for every other number of
\* components, the bare SS form included, and for a non-numeric component.
C13_AcceptsTwoForms ==
    calc.op = "_time_to_seconds" =>
        IF Len(calc.t) \in {2, 3} /\ NumericParts(calc.t)
        THEN calc.res.ok /\ calc.res.v = FieldValue(calc.t)
        ELSE ~calc.res.ok

C13_Witness ==
    /\ calc.op = "_time_to_seconds"
    /\ calc.t = <<IntPart(1), IntPart(1), FracPart(500)>>
    /\ calc.res = TimeOk(3660500)

Within1ms(a, b) == a - b <= 1 /\ b - a <= 1

\* text is written as zero-padded HH:MM:SS.mmm
PaddedHMS(text) ==
    /\ Len(text) = 3
    /\ text[1].kind = "int" /\ text[1].w >= 2 /\ text[1].v >= 0
    /\ text[2].kind = "int" /\ text[2].w = 2
    /\ text[2].v >= 0 /\ text[2].v <= 59 * 1000
    /\ text[3].kind = "frac" /\ text[3].w = 6
    /\ text[3].v >= 0 /\ text[3].v < 60 * 1000

\* C14: for a non-negative offset x in whole milliseconds the text of
\* _seconds_to_time_format(x) is zero-padded HH:MM:SS.mmm and parses back to
\* x within 1 ms; and for a string s that parses to a non-negative offset,
\* formatting that offset and parsing it again gives the same offset within
\* 1 ms.
C14_RoundTrip ==
    /\ calc.op = "_seconds_to_time_format" =>
         /\ PaddedHMS(calc.text)
         /\ calc.back.ok /\ Within1ms(calc.back.v, calc.x)
    /\ (calc.op = "_time_to_seconds" /\ calc.res.ok /\ calc.res.v >= 0) =>
         calc.again.ok /\ Within1ms(calc.again.v, calc.res.v)

C14_Witness ==
    /\ calc.op = "_seconds_to_time_format"
    /\ calc.x = 1 * 3600000 + 59 * 60000 + 59 * 1000 + 999
    /\ calc.text = <<[kind |-> "int", v |-> 1000, w |-> 2],
                     [kind |-> "int", v |-> 59000, w |-> 2],
                     [kind |-> "frac", v |-> 59999, w |-> 6]>>
    /\ calc.back = TimeOk(calc.x)

\* the tokens of url in a recognised position: directly after "v=", "embed/"
\* or "youtu.be/"
RecognisedTokens(url) ==
    {url[i + 1].tok : i \in {j \in 1..(Len(url) - 1) :
        url[j] \in {VEquals, EmbedSlash, YoutuBeSlash} /\ IsToken(url[j + 1])}}

\* C15 as stated: extract_video_id returns the same token for the watch, the
\* embed and the shortened-domain form that carry it, and fails for every
\* string with no 11-character token in a recognised position, such as a URL
\* whose only 11-character run follows the slash of an unrelated path segment.
C15_ExtractVideoId ==
    calc.op = "extract_video_id" =>
        /\ calc.url \in {WatchUrl("a"), EmbedUrl("a"), ShortUrl("a")} =>
             calc.res = "a"
        /\ RecognisedTokens(calc.url) = {} => calc.res = ""

\* C16 as stated: cleanup_file returns true when it removed the file and
\* also when the file was already absent, false only when the removal of an
\* existing file failed; after it returned true the file does not exist.
C16_AbsentIsSuccess ==
    calc.op = "cleanup_file" =>
        /\ calc.res.ret <=> ~(calc.existed /\ calc.removeRaises)
        /\ calc.res.ret => ~calc.res.exists

\* no two entries of a log are for the same step
NoRepeat(L, field) ==
    \A i, j \in 1..Len(L) : i # j => L[i][field] # L[j][field]

\* C17: one call of download_video runs the download tool at most 5 times
\* and one call of create_clip runs the media tool at most twice, no step
\* twice; the end of a probe run ends create_clip, so the probe runs once;
\* and, as every external process that was started ends, a call of
\* download_video that is running ends, and so does a call of create_clip.
C17_FiniteChains ==
    /\ [](\A r \in Procs :
            /\ Len(req[r].dlLog) <= 5 /\ NoRepeat(req[r].dlLog, "step")
            /\ Len(req[r].mediaLog) <= 2
            /\ NoRepeat(req[r].mediaLog, "phase"))
    /\ [][\A r \in Procs :
            (req[r].pc = "probe" /\ Acted(r)) => req'[r].pc = "done"]_vars
    /\ \A r \in Procs : (req[r].pc = "dl") ~> (req[r].pc # "dl")
    /\ \A r \in Procs :
         (req[r].pc \in {"copy", "encode", "probe"}) ~> (req[r].pc = "done")

C17_Witness ==
    \E r \in Procs :
        /\ Succeeded(req[r])
        /\ Len(req[r].dlLog) = 5
        /\ Len(req[r].mediaLog) = 2
        /\ req[r].probe # "none"

C19_RejectedBeforeSideEffects ==
    \A r \in Procs :
        req[r].cause \in {"time_string", "time"} =>
            /\ req[r].nDownload = 0
            /\ req[r].nSave = 0 /\ req[r].nUpdate = 0
            /\ req[r].mediaLog = <<>>

\* C20 as stated: create_clip's own range check accepts exactly the pairs
\* that validate_time_range accepts when no source duration is supplied, so a
\* pair it accepts, with which it goes on to run the media tool, has
\* start >= 0, end > start and end - start <= 3600 s.
C20_SameRangesAccepted ==
    (calc.op = "validate_time_range" /\ calc.video_duration = NoDuration) =>
        /\ calc.clip = "ok" <=> calc.res = "ok"
        /\ calc.clip = "ok" =>
             /\ ParsedStart >= 0
             /\ ParsedEnd > ParsedStart
             /\ ParsedEnd - ParsedStart <= 3600 * 1000

\* _download_with_fallback was entered by the request's current download
FallbackEntered(q) == Len(q.dlLog) >= 2 \/ (q.pc = "dl" /\ q.dlStep >= 2)

\* C21: _download_with_fallback is entered if and only if the primary attempt
\* exited non-zero with an error text that holds the bot-detection sentence or
\* the word cookies; it is never entered after a primary attempt that exited
\* 0, nor after one that exited non-zero without the signature or could not
\* be launched.
C21_FallbackTrigger ==
    \A r \in Procs :
        LET q == req[r]
            L == q.dlLog
        IN  /\ FallbackEntered(q) <=> (Len(L) >= 1 /\ L[1].res = "exit_bot")
            /\ (Len(L) >= 1 /\ L[1].res \in {"file", "no_file"}) =>
                 ~FallbackEntered(q)
            /\ (Len(L) >= 1 /\ L[1].res = "exit_bot" /\ q.pc = "dl") =>
                 q.dlStep = Len(L) + 1

C21_Witness ==
    \E r \in Procs :
        /\ req[r].pc = "dl" /\ req[r].dlStep = 2
        /\ req[r].dlLog[1].res = "exit_bot"
        /\ \E row \in db : row.video_id = req[r].video_id

\* download_video has just returned to the endpoint and the disk was not
\* cleaned since
JustReturned(q) == q.pc \in {"save", "reconcile"} /\ ~q.extClean

\* C22 as stated: after any step of the chain that exited 0, the file is
\* searched as <id>.mp4 first and then under the accepted extensions; if the
\* search finds nothing, download_video fails, so no download that had such a
\* step returns a path; and a path that is returned names an existing file of
\* the identifier with an accepted extension.
C22_NoFileMeansFailure ==
    \A r \in Procs :
        LET q == req[r]
            L == q.dlLog
        IN  /\ (q.emptyExit \/ (Len(L) >= 1 /\ L[1].res = "no_file")) =>
                 (L[Len(L)].res # "file" /\ q.nSave + q.nUpdate = 0)
            /\ JustReturned(q) =>
                 /\ q.video_path.id = q.video_id
                 /\ q.video_path.ext \in AcceptedExts
                 /\ Exists(q.video_path)

\* C22 amended: a primary attempt that exited 0 without leaving a file makes
\* download_video fail at once; an alternate or final step that exited 0
\* without leaving a file counts as a failed step, the chain goes on with the
\* next step, and download_video fails only when the final step has ended
\* without a file; a path that is returned names an existing file of the
\* identifier with an accepted extension, <id>.mp4 whenever that file exists.
C22_LocateFile ==
    \A r \in Procs :
        LET q == req[r]
            L == q.dlLog
        IN  /\ (Len(L) >= 1 /\ L[1].res = "no_file") =>
                 Len(L) = 1 /\ DownloadRaised(q)
            /\ q.emptyExit =>
                 /\ Len(L) >= 2 /\ L[1].res = "exit_bot"
                 /\ \A k \in 1..(Len(L) - 1) : L[k].res # "file"
                 /\ q.pc = "dl" => q.dlStep = Len(L) + 1
                 /\ DownloadRaised(q) => Len(L) = Len(Steps)
            /\ DownloadRaised(q) => L[Len(L)].res # "file"
            /\ JustReturned(q) =>
                 /\ L[Len(L)].res = "file"
                 /\ q.video_path.id = q.video_id
                 /\ q.video_path.ext \in AcceptedExts
                 /\ Exists(q.video_path)
                 /\ srcFiles[q.video_id]["mp4"] # NoFile =>
                      q.video_path.ext = "mp4"

C22_Witness ==
    \E r \in Procs :
        /\ JustReturned(req[r])
        /\ req[r].emptyExit
        /\ Len(req[r].dlLog) = 3
        /\ req[r].dlLog[3].res = "file"
        /\ req[r].video_path.ext = "webm"

\* C23: while the re-encode run of a request is in flight, from its launch
\* on, no file left by the stream copy exists at the clip's output path: the
\* copy's output, if any, was removed before the launch.
C23_CopyOutputRemoved ==
    \A r \in Procs :
        req[r].pc = "encode" =>
            /\ clipFiles[req[r].clip_id] = NoFile
            /\ Len(req[r].mediaLog) = 1
            /\ req[r].mediaLog[1].phase = "copy"

C23_Witness ==
    \E r \in Procs :
        /\ req[r].pc = "encode"
        /\ req[r].mediaLog[1].out = 1000
        /\ req[r].mediaLog[1].rc = 0
        /\ clipFiles[req[r].clip_id] = NoFile

\* create_clip was called by the request and raised
ClipRaised(q) ==
    q.pc = "done" /\ q.nExtract = 1 /\ q.cause \in {"time", "extraction"}

\* create_clip returned to the request and the response's cleanup task has
\* not run yet
ClipReturned(q) == q.pc = "done" /\ q.status = 200 /\ q.clip_id \in bgTasks

WrittenTogether(rec) ==
    \E k \in 1..Len(Steps) :
        rec.file_size = WrittenSize(k, rec.file_path.ext)

\* C25 as stated: a repair of a stale record is atomic for the lookups of
\* concurrent requests: the table they read never holds a record with the
\* location of one download and the size of another, and the record a lookup
\* returns is a row of the table whose location and size were written
\* together.
C25_ReconcileAtomic ==
    [][ /\ \A row \in db' : WrittenTogether(row)
        /\ \A r \in Procs :
             (req[r].pc = "lookup" /\ req'[r].pc # "lookup"
              /\ req'[r].video_record # NoRecord) =>
                 /\ req'[r].video_record \in db
                 /\ WrittenTogether(req'[r].video_record) ]_vars

\* the steps that may follow a step of one request
StepsAfter(pc) ==
    CASE pc = "lookup" -> {"dl", "copy", "done"}
      [] pc = "dl" -> {"dl", "save", "reconcile", "done"}
      [] pc \in {"save", "reconcile"} -> {"copy", "done"}
      [] pc = "copy" -> {"encode", "probe", "done"}
      [] pc = "encode" -> {"probe", "done"}
      [] pc = "probe" -> {"done"}
      [] OTHER -> {"lookup", "done"}

\* C26: within one request the steps run strictly in the order identifier
\* extraction, cache lookup, acquisition if needed, cache save or repair,
\* extraction; a step begins only when the step before it has ended, a step
\* that ends without an error is followed by the next one, and while an
\* external process of the request is in flight the request is at that step
\* and at no other.
C26_StepsInSequence ==
    /\ [][\A r \in Procs :
            Acted(r) =>
              /\ req'[r].pc \in StepsAfter(req[r].pc)
              /\ (issued' = issued /\ req'[r].pc = "done"
                  /\ req[r].pc # "probe") => req'[r].status # 200
              /\ (req[r].pc \in {"idle", "done"}) => issued' = issued + 1]_vars
    /\ [](\A r \in Procs :
            LET q == req[r]
            IN  /\ q.pc = "lookup" =>
                     q.video_id # "" /\ q.nDownload = 0 /\ q.nExtract = 0
                /\ q.pc = "dl" =>
                     /\ q.nDownload = 1 /\ q.nSave + q.nUpdate = 0
                     /\ q.nExtract = 0 /\ q.mediaLog = <<>>
                     /\ q.dlStep = Len(q.dlLog) + 1
                /\ q.pc \in {"save", "reconcile"} =>
                     /\ q.nDownload = 1 /\ q.nSave + q.nUpdate = 1
                     /\ q.nExtract = 0 /\ q.mediaLog = <<>>
                /\ q.pc \in {"copy", "encode", "probe"} =>
                     /\ q.nExtract = 1
                     /\ q.nDownload = q.nSave + q.nUpdate
                     /\ q.dlStep = 0
                     /\ Len(q.mediaLog) =
                          (CASE q.pc = "copy" -> 0 [] q.pc = "encode" -> 1
                             [] OTHER -> Len(q.mediaLog))
                /\ (q.pc = "done" /\ q.status = 200) =>
                     /\ q.nExtract = 1 /\ Len(q.mediaLog) >= 1
                     /\ q.probe # "none")

C26_Witness ==
    \E r \in Procs :
        /\ req[r].pc = "probe"
        /\ req[r].nDownload = 1 /\ req[r].nUpdate = 1
        /\ Len(req[r].dlLog) = 3
        /\ Len(req[r].mediaLog) = 2

\* the step of a cancelled request that was interrupted
InterruptedStep(q) ==
    IF q.nExtract = 0 THEN "dl"
    ELSE IF q.mediaLog = <<>> THEN "copy"
    ELSE IF Len(q.mediaLog) = 1
            /\ ~stream_copy_success(q.mediaLog[1].rc, q.mediaLog[1].out)
    THEN "encode"
    ELSE "probe"

\* C27 as stated: when a request is cancelled while an external process is in
\* flight, that process is terminated and the partial output of the
\* interrupted step is removed: after the cancellation no process started by
\* the request is running, no fragment of an interrupted download is left
\* and no file is left at the output path of an interrupted media run.
C27_CancelCleansUp ==
    \A r \in Procs :
        req[r].pc = "cancelled" =>
            /\ req[r].orphan = "none"
            /\ InterruptedStep(req[r]) = "dl" =>
                 srcFiles[req[r].video_id]["part"] = NoFile
            /\ InterruptedStep(req[r]) \in {"copy", "encode"} =>
                 clipFiles[req[r].clip_id] = NoFile

\* C28 as stated: the clip of a successful request is deleted only by the
\* cleanup that runs when the retention window of one hour has passed: until
\* then the file exists, and a download request issued before then finds it
\* and is not answered "Clip not found".
C28_ClipKeptForWindow ==
    \A r \in Procs :
        (req[r].pc = "done" /\ req[r].status = 200) =>
            /\ ~req[r].windowOver => clipFiles[req[r].clip_id] # NoFile
            /\ req[r].fetch.status = 404 => req[r].fetch.late

\* the table holds a deactivated record of the identifier
Deactivated(video_id) ==
    \E row \in db : row.video_id = video_id /\ ~row.is_active

\* C29 as stated: for an identifier whose only record is deactivated the
\* lookup returns absence and the request goes on as a cache miss that
\* completes normally: it downloads the video, save_video_record inserts a
\* new active record without raising, and the table then holds an active
\* record with the newly saved path.
C29_DeactivatedIsMiss ==
    \A r \in Procs :
        LET q == req[r]
        IN  (Deactivated(q.video_id) /\ q.pc \notin {"idle", "lookup"}) =>
              /\ q.video_record = NoRecord
              /\ q.nDownload = 1 /\ q.nUpdate = 0
              /\ (q.nSave = 1 /\ q.pc # "save") =>
                   /\ ~q.saveRaised
                   /\ q.cause # "storage"
                   /\ \E row \in db :
                        /\ row.video_id = q.video_id /\ row.is_active
                        /\ row.file_path = q.video_path

\* C30: a request whose download_video raised, on a miss or while repairing
\* a stale record, has written nothing to the cache: no step of a download
\* changes the table, the request reached neither the save nor the repairing
\* commit, the table holds no record of an identifier that had none at the
\* lookup, and the record that was found is in the table as it was found.
C30_FailedDownloadLeavesCache ==
    /\ [][\A r \in Procs : (req[r].pc = "dl" /\ Acted(r)) => db' = db]_vars
    /\ [](\A r \in Procs :
            LET q == req[r]
            IN  DownloadRaised(q) =>
                  /\ q.nSave = 0 /\ q.nUpdate = 0
                  /\ ~q.saveRaised
                  /\ ~q.rowAtLookup =>
                       ~\E row \in db :
                           row.video_id = q.video_id /\ row.is_active
                  /\ q.video_record # NoRecord => q.video_record \in db)

C30_Witness ==
    \E r \in Procs :
        /\ DownloadRaised(req[r])
        /\ req[r].video_record # NoRecord
        /\ req[r].video_record \in db
        /\ Len(req[r].dlLog) = Len(Steps)

\* the step inserts one active record of the request's identifier, which had
\* no row, with the downloaded path and size, and leaves every other row
InsertsRecord(q) ==
    /\ \A row \in db : row.video_id # q.video_id
    /\ db' = db \cup {[video_id |-> q.video_id, file_path |-> q.video_path,
                       file_size |-> q.file_size, is_active |-> TRUE]}

\* the step changes nothing but the location and the size of the row of the
\* request's identifier
UpdatesInPlace(q) ==
    /\ Cardinality(db') = Cardinality(db)
    /\ \A row \in db :
         IF row.video_id = q.video_id
         THEN \E row2 \in db' :
                  [row2 EXCEPT !.file_path = row.file_path,
                               !.file_size = row.file_size] = row
         ELSE row \in db'

\* C31: no step of the pipeline deletes a cache record or changes its active
\* flag; the table changes only when save_video_record inserts a new active
\* record on a miss and when the repairing commit updates the location and
\* the size of a stale record in place; the lookup, the download, the
\* extraction and the clip cleanup never write to the table.
C31_CacheWrites ==
    [][ /\ \A row \in db :
             \E row2 \in db' :
                 row2.video_id = row.video_id
                 /\ row2.is_active = row.is_active
        /\ \A row2 \in db' :
             (\A row \in db : row.video_id # row2.video_id) => row2.is_active
        /\ db' # db =>
             \E r \in Procs :
                 /\ Acted(r)
                 /\ \/ req[r].pc = "save" /\ InsertsRecord(req[r])
                    \/ req[r].pc = "reconcile" /\ UpdatesInPlace(req[r])
        /\ (\A r \in Procs :
              Acted(r) => req[r].pc \notin {"save", "reconcile"}) => db' = db
      ]_vars

\* a record was inserted, repaired by a later request, and the clip of that
\* request was cleaned up
C31_Witness ==
    \E r \in Procs :
        /\ req[r].pc = "done" /\ req[r].status = 200
        /\ req[r].nUpdate = 1
        /\ req[r].clip_id \notin bgTasks
        /\ clipFiles[req[r].clip_id] = NoFile
        /\ \E row \in db :
             /\ row.video_id = req[r].video_id /\ row.is_active
             /\ row.file_path = req[r].video_path
             /\ row.file_path.ext = "webm"

====
